---- MODULE Spec2Model ----
(***************************************************************************)
(* Model of the lottery session client (internal/lottery/client.go) and    *)
(* of the two command-line runs that drive it.                             *)
(*                                                                         *)
(* Text is modelled as a sequence of one-character strings, so that the    *)
(* conversions of the code (strconv.Itoa, strconv.Atoi, strings.Join,      *)
(* strings.Split, the slicing of a purchase line) are computed and not     *)
(* assumed.                                                                *)
(***************************************************************************)
EXTENDS Integers, Sequences, FiniteSets, TLC

VARIABLES
    pc,         \* position of the caller / of the operation in flight
    op,         \* the operation in flight or last finished
    session,    \* "Uninitialized" | "SessionReady" | "Authenticated"
    held,       \* TRUE when NewClient handed a client to the caller
    warmups,    \* warm-up GETs issued by this client
    logins,     \* login POSTs issued by this client
    batch,      \* tickets argument of BuyLotto645
    readyIP,    \* local readyIP of BuyLotto645
    round,      \* local round of BuyLotto645
    summaries,  \* local summaries of GetRecentPurchases
    histories,  \* local histories of GetRecentPurchases
    reqs,       \* HTTP requests issued by the operation in flight, in order
    resps,      \* the response to each request of reqs
    result,     \* what the operation returned: [err, val]
    fin,        \* argument of a pure function under test
    fout        \* its result

vars == <<pc, op, session, held, warmups, logins, batch, readyIP, round,
          summaries, histories, reqs, resps, result, fin, fout>>

-----------------------------------------------------------------------------
(* Bounds of the model *)

\* longest ticket batch handed to BuyLotto645
MaxBatch == 6
\* longest order-summary list the purchase-list page yields
MaxSummaries == 2
\* longest batch handed to the parameter encoder on its own
MaxEncBatch == 5
\* most number tokens in a purchase-response line decoded on its own
MaxTokens == 6

-----------------------------------------------------------------------------
(* Text *)

Digits == <<"0", "1", "2", "3", "4", "5", "6", "7", "8", "9">>

IsDigit(c) == \E d \in 1..10 : Digits[d] = c

DigitVal(c) == (CHOOSE d \in 1..10 : Digits[d] = c) - 1

RECURSIVE ItoaNat(_)
ItoaNat(n) ==
    IF n < 10 THEN <<Digits[n + 1]>>
    ELSE ItoaNat(n \div 10) \o <<Digits[(n % 10) + 1]>>

\* strconv.Itoa
Itoa(n) == IF n < 0 THEN <<"-">> \o ItoaNat(-n) ELSE ItoaNat(n)

RECURSIVE DigitsValue(_)
DigitsValue(s) ==
    IF s = <<>> THEN 0
    ELSE 10 * DigitsValue(SubSeq(s, 1, Len(s) - 1)) + DigitVal(s[Len(s)])

\* strconv.Atoi: an optional sign, then one or more decimal digits; anything
\* else is an error.  (Its range error needs a token of 19 digits or more;
\* the lines enumerated here have tokens of at most 3 characters.)
Atoi(s) ==
    LET signed == s # <<>> /\ s[1] \in {"+", "-"}
        body   == IF signed THEN Tail(s) ELSE s
        ok     == body # <<>> /\ \A i \in 1..Len(body) : IsDigit(body[i])
        mag    == IF ok THEN DigitsValue(body) ELSE 0
    IN  [ok |-> ok, val |-> IF signed /\ s[1] = "-" THEN -mag ELSE mag]

RECURSIVE Join(_, _)
\* strings.Join
Join(strs, sep) ==
    IF strs = <<>> THEN <<>>
    ELSE IF Len(strs) = 1 THEN strs[1]
    ELSE strs[1] \o sep \o Join(Tail(strs), sep)

RECURSIVE Split(_, _)
\* strings.Split with a one-character separator: always at least one part
Split(s, sep) ==
    IF \A i \in 1..Len(s) : s[i] # sep THEN <<s>>
    ELSE LET k == CHOOSE i \in 1..Len(s) :
                      s[i] = sep /\ \A j \in 1..(i - 1) : s[j] # sep
         IN  <<SubSeq(s, 1, k - 1)>> \o Split(SubSeq(s, k + 1, Len(s)), sep)

\* numbersToString joining with the separator of the purchase lines
numbersToString_Pipe(numbers) ==
    Join([i \in 1..Len(numbers) |-> Itoa(numbers[i])], <<"|">>)

\* numbersToString: []int to comma-separated text
numbersToString(numbers) ==
    Join([i \in 1..Len(numbers) |-> Itoa(numbers[i])], <<",">>)

-----------------------------------------------------------------------------
(* Errors.  The code builds every error with fmt.Errorf; kind names the     *)
(* place that created it, ctx the contexts wrapped around it (outermost      *)
(* first), chain whether every wrap kept the cause reachable (%w).           *)

NoErr == [kind |-> "nil", msg |-> "", ctx |-> <<>>, chain |-> TRUE]

NewErr(kind, msg) == [kind |-> kind, msg |-> msg, ctx |-> <<>>, chain |-> TRUE]

\* fmt.Errorf("<context>: %w", err)
Wrap(context, err) == [err EXCEPT !.ctx = <<context>> \o @]

\* fmt.Errorf("<context> ... %v", err): the text is kept, the cause is not
WrapText(context, err) == [err EXCEPT !.ctx = <<context>> \o @, !.chain = FALSE]

-----------------------------------------------------------------------------
(* Ticket model (package domain) *)

ModeAuto == "Auto"
ModeManual == "Manual"
ModeSemiAuto == "SemiAuto"

Lotto645Ticket(mode, numbers) == [Mode |-> mode, Numbers |-> numbers]

-----------------------------------------------------------------------------
(* Purchase parameter encoding *)

slotNames == <<"A", "B", "C", "D", "E">>

JsonNull == [t |-> "null", s |-> <<>>]

JsonString(s) == [t |-> "string", s |-> s]

\* the switch of makeBuyParam on ticket.Mode: ok is FALSE in the default case
EncodeSlot(ticket, name) ==
    CASE ticket.Mode = ModeAuto ->
            [ok |-> TRUE, genType |-> "0", arrGameChoiceNum |-> JsonNull,
             alpabet |-> name]
      [] ticket.Mode = ModeManual ->
            [ok |-> TRUE, genType |-> "1",
             arrGameChoiceNum |-> JsonString(numbersToString(ticket.Numbers)),
             alpabet |-> name]
      [] ticket.Mode = ModeSemiAuto ->
            [ok |-> TRUE, genType |-> "2",
             arrGameChoiceNum |-> JsonString(numbersToString(ticket.Numbers)),
             alpabet |-> name]
      [] OTHER ->
            [ok |-> FALSE, genType |-> "", arrGameChoiceNum |-> JsonNull,
             alpabet |-> name]

\* makeBuyParam encoding the first five tickets and dropping the others
makeBuyParam_FirstFive(tickets) ==
    LET n      == IF Len(tickets) > Len(slotNames) THEN Len(slotNames) ELSE Len(tickets)
        stops  == {i \in 1..n : ~EncodeSlot(tickets[i], slotNames[i]).ok}
        obj(i) == LET e == EncodeSlot(tickets[i], slotNames[i])
                  IN  [genType |-> e.genType,
                       arrGameChoiceNum |-> e.arrGameChoiceNum,
                       alpabet |-> e.alpabet]
    IN  IF stops = {}
        THEN [err |-> NoErr, param |-> [i \in 1..n |-> obj(i)]]
        ELSE [err |-> NewErr("InvalidInput", "invalid mode"), param |-> <<>>]

\* makeBuyParam: the loop stops at the first ticket that is past slot E or
\* has no known mode.  param is the JSON array that json.Marshal writes: one
\* object per ticket, in input order, with the three keys of the slot map.
makeBuyParam(tickets) ==
    LET bad(i) == i > Len(slotNames)
                  \/ ~EncodeSlot(tickets[i], slotNames[i]).ok
        stops  == {i \in 1..Len(tickets) : bad(i)}
        first  == CHOOSE i \in stops : \A j \in stops : i <= j
        obj(i) == LET e == EncodeSlot(tickets[i], slotNames[i])
                  IN  [genType |-> e.genType,
                       arrGameChoiceNum |-> e.arrGameChoiceNum,
                       alpabet |-> e.alpabet]
    IN  IF stops = {}
        THEN [err |-> NoErr, param |-> [i \in 1..Len(tickets) |-> obj(i)]]
        ELSE IF first > Len(slotNames)
        THEN [err |-> NewErr("InvalidInput", "max 5 tickets"), param |-> <<>>]
        ELSE [err |-> NewErr("InvalidInput", "invalid mode"), param |-> <<>>]

-----------------------------------------------------------------------------
(* Purchase response decoding *)

\* The mode texts of the code are Korean words, written here in Latin
\* letters: sudong = manual, banjadong = semi-automatic, jadong = automatic,
\* al su eopseum = unknown.
ModeTextManual == "sudong"
ModeTextSemiAuto == "banjadong"
ModeTextAuto == "jadong"
ModeTextUnknown == "al su eopseum"

\* the lookup without the fallback: a missing key gives the empty string
modeMap_NoFallback(modeCode) ==
    CASE modeCode = <<"1">> -> ModeTextManual
      [] modeCode = <<"2">> -> ModeTextSemiAuto
      [] modeCode = <<"3">> -> ModeTextAuto
      [] OTHER -> ""

\* modeMap of parsePurchasedNumbers, with the fallback for a missing key
modeMap(modeCode) ==
    CASE modeCode = <<"1">> -> ModeTextManual
      [] modeCode = <<"2">> -> ModeTextSemiAuto
      [] modeCode = <<"3">> -> ModeTextAuto
      [] OTHER -> ModeTextUnknown

RECURSIVE ParsedNumbers_IgnoreErr(_)
\* the number loop appending the value of Atoi whatever its error
ParsedNumbers_IgnoreErr(numberParts) ==
    IF numberParts = <<>> THEN <<>>
    ELSE <<Atoi(Head(numberParts)).val>> \o ParsedNumbers_IgnoreErr(Tail(numberParts))

\* the numbers of the tokens that strconv.Atoi accepts, in order
RECURSIVE ParsedNumbers(_)
ParsedNumbers(numberParts) ==
    IF numberParts = <<>> THEN <<>>
    ELSE LET a == Atoi(Head(numberParts))
         IN  (IF a.ok THEN <<a.val>> ELSE <<>>) \o ParsedNumbers(Tail(numberParts))

\* the slice taken without dropping the mode digit: line[2:]
numbersSection_KeepSuffix(line) == SubSeq(line, 3, Len(line))

\* line[2 : len(line)-1]
numbersSection(line) == SubSeq(line, 3, Len(line) - 1)

\* one iteration of the loop of parsePurchasedNumbers, for len(line) >= 3
ParseLine(rnd, line) ==
    [Round   |-> rnd,
     Slot    |-> SubSeq(line, 1, 1),
     Numbers |-> ParsedNumbers(Split(numbersSection(line), "|")),
     Mode    |-> modeMap(SubSeq(line, Len(line), Len(line)))]

RECURSIVE parsePurchasedNumbers_SkipUnknownMode(_, _)
\* the loop also skipping the lines whose mode digit is not in modeMap
parsePurchasedNumbers_SkipUnknownMode(rnd, lines) ==
    IF lines = <<>> THEN <<>>
    ELSE (IF Len(Head(lines)) < 3
             \/ modeMap(SubSeq(Head(lines), Len(Head(lines)), Len(Head(lines)))) = ModeTextUnknown
          THEN <<>> ELSE <<ParseLine(rnd, Head(lines))>>)
         \o parsePurchasedNumbers_SkipUnknownMode(rnd, Tail(lines))

RECURSIVE parsePurchasedNumbers(_, _)
parsePurchasedNumbers(rnd, lines) ==
    IF lines = <<>> THEN <<>>
    ELSE (IF Len(Head(lines)) < 3 THEN <<>> ELSE <<ParseLine(rnd, Head(lines))>>)
         \o parsePurchasedNumbers(rnd, Tail(lines))

-----------------------------------------------------------------------------
(* The HTTP boundary *)

defaultSessionURL == "https://dhlottery.co.kr/gameResult.do?method=byWin&wiselog=H_C_1_1"
systemCheckURL == "https://dhlottery.co.kr/index_check.html"
mainURL == "https://www.dhlottery.co.kr/common.do?method=main"
loginURL == "https://www.dhlottery.co.kr/userSsl.do?method=login"
readySocketURL == "https://ol.dhlottery.co.kr/olotto/game/egovUserReadySocket.json"
buyLotto645URL == "https://ol.dhlottery.co.kr/olotto/game/execBuy.do"
winningURL == "https://dhlottery.co.kr/gameResult.do?method=byWin"
lottoBuyListURL == "https://www.dhlottery.co.kr/myPage.do?method=lottoBuyList"
lottoDetailURL == "https://www.dhlottery.co.kr/myPage.do?method=lotto645Detail"

\* a request: its method, its URL and its form or query parameters
Request(method, url, form) == [method |-> method, url |-> url, form |-> form]

\* A response as httpClient.Do and the reading of the body deliver it:
\* ok is FALSE when Do returned an error, decodable is FALSE when the body is
\* not what the decoder of that endpoint can read, body is what it carries.
\* A failed or unreadable response carries the zero value of the body.
Response(body) == [ok |-> TRUE, decodable |-> TRUE, body |-> body]
TransportFailure(zero) == [ok |-> FALSE, decodable |-> FALSE, body |-> zero]
Undecodable(zero) == [ok |-> TRUE, decodable |-> FALSE, body |-> zero]

ErrTransport == NewErr("Transport", "")

\* the URLs a warm-up GET can end on after redirects
FinalURLs ==
    {defaultSessionURL, systemCheckURL,
     "https://www.dhlottery.co.kr/index_check.html"}

WarmupResponses == {TransportFailure("")} \cup {Response(u) : u \in FinalURLs}

LoginResponses ==
    {TransportFailure([failureMarker |-> FALSE])}
    \cup {Response([failureMarker |-> m]) : m \in BOOLEAN}

ReadyTokens == {"10.0.0.7", "10.0.0.9"}

\* the ready-socket body: not JSON, JSON without ready_ip, JSON with it
NoReadyIP == [has |-> FALSE, ready_ip |-> ""]

ReadyResponses ==
    {TransportFailure(NoReadyIP), Undecodable(NoReadyIP), Response(NoReadyIP)}
    \cup {Response([has |-> TRUE, ready_ip |-> t]) : t \in ReadyTokens}

Rounds == {1199, 1200}

\* the main page: without the round field, or with a round number in it
MainResponses ==
    {TransportFailure(0), Undecodable(0)} \cup {Response(r) : r \in Rounds}

-----------------------------------------------------------------------------
(* Response Decoder (package parser) *)

\* parser.ParseLoginResult
ParseLoginResult(page) ==
    IF page.failureMarker THEN NewErr("AuthenticationFailed", "") ELSE NoErr

\* parser.ParseCurrentRound
ParseCurrentRound(resp) ==
    IF ~resp.decodable THEN [err |-> NewErr("ParseError", ""), val |-> 0]
    ELSE [err |-> NoErr, val |-> resp.body]

-----------------------------------------------------------------------------
(* Construction *)

\* initSession without the check of the URL the response ended on
initSession_NoCheck(resp) == IF ~resp.ok THEN ErrTransport ELSE NoErr

\* initSession: the outcome of the warm-up GET
initSession(resp) ==
    IF ~resp.ok THEN ErrTransport
    ELSE IF resp.body = systemCheckURL THEN NewErr("SiteUnavailable", "")
    ELSE NoErr

\* login: the outcome of the login POST
login(resp) ==
    IF ~resp.ok THEN ErrTransport ELSE ParseLoginResult(resp.body)

\* what an operation returns
Return(err, val) == [err |-> err, val |-> val]
NoResult == Return(NoErr, <<>>)

LoginForm ==
    [returnUrl |-> mainURL, userId |-> "username", password |-> "password",
     checkSave |-> "off", newsEventYn |-> ""]

\* Every call starts with its own locals and has issued no request yet.
FreshLocals ==
    /\ readyIP' = ""
    /\ round' = 0
    /\ summaries' = <<>>
    /\ histories' = <<>>
    /\ reqs' = <<>>
    /\ resps' = <<>>
    /\ result' = NoResult

\* NewClient is called: a fresh client with an empty cookie jar
NewClient_Call ==
    /\ pc \in {"start", "failed"}
    /\ pc' = "initSession"
    /\ op' = "NewClient"
    /\ session' = "Uninitialized"
    /\ held' = FALSE
    /\ warmups' = 0
    /\ logins' = 0
    /\ batch' = <<>>
    /\ FreshLocals
    /\ UNCHANGED <<fin, fout>>

\* NewClient, step 1: client.initSession()
NewClient_initSession ==
    /\ pc = "initSession"
    /\ \E resp \in WarmupResponses :
          /\ reqs' = Append(reqs, Request("GET", defaultSessionURL, <<>>))
          /\ resps' = Append(resps, resp)
          /\ warmups' = warmups + 1
          /\ IF initSession(resp) # NoErr
             THEN /\ result' = Return(Wrap("session init failed", initSession(resp)), <<>>)
                  /\ pc' = "failed"
                  /\ session' = session
             ELSE /\ result' = result
                  /\ pc' = "login"
                  /\ session' = "SessionReady"
    /\ UNCHANGED <<op, held, logins, batch, readyIP, round, summaries,
                   histories, fin, fout>>

\* NewClient returning the client whatever login returned
NewClient_login_KeepClient ==
    /\ pc = "login"
    /\ \E resp \in LoginResponses :
          /\ reqs' = Append(reqs, Request("POST", loginURL, LoginForm))
          /\ resps' = Append(resps, resp)
          /\ logins' = logins + 1
          /\ result' = IF login(resp) # NoErr
                       THEN Return(Wrap("login failed", login(resp)), <<>>)
                       ELSE NoResult
          /\ pc' = "idle"
          /\ session' = IF login(resp) # NoErr THEN session ELSE "Authenticated"
          /\ held' = TRUE
    /\ UNCHANGED <<op, warmups, batch, readyIP, round, summaries, histories,
                   fin, fout>>

\* NewClient, step 2: client.login(), then return client, nil
NewClient_login ==
    /\ pc = "login"
    /\ \E resp \in LoginResponses :
          /\ reqs' = Append(reqs, Request("POST", loginURL, LoginForm))
          /\ resps' = Append(resps, resp)
          /\ logins' = logins + 1
          /\ IF login(resp) # NoErr
             THEN /\ result' = Return(Wrap("login failed", login(resp)), <<>>)
                  /\ pc' = "failed"
                  /\ session' = session
                  /\ held' = FALSE
             ELSE /\ result' = NoResult
                  /\ pc' = "idle"
                  /\ session' = "Authenticated"
                  /\ held' = TRUE
    /\ UNCHANGED <<op, warmups, batch, readyIP, round, summaries, histories,
                   fin, fout>>

-----------------------------------------------------------------------------
(* Round lookup *)

\* GetCurrentRound: the outcome of the main-page GET
GetCurrentRound(resp) ==
    IF ~resp.ok THEN Return(ErrTransport, 0) ELSE ParseCurrentRound(resp)

\* GetCurrentRound logging in again when the main page cannot be read
GetCurrentRound_Op_Relogin ==
    /\ pc = "idle"
    /\ held
    /\ op' = "GetCurrentRound"
    /\ \E resp \in MainResponses :
          /\ result' = GetCurrentRound(resp)
          /\ IF resp.ok /\ ~resp.decodable
             THEN /\ reqs' = <<Request("GET", mainURL, <<>>),
                               Request("POST", loginURL, LoginForm)>>
                  /\ resps' = <<Response([failureMarker |-> FALSE]), resp>>
                  /\ logins' = logins + 1
             ELSE /\ reqs' = <<Request("GET", mainURL, <<>>)>>
                  /\ resps' = <<resp>>
                  /\ logins' = logins
    /\ batch' = <<>>
    /\ readyIP' = ""
    /\ round' = 0
    /\ summaries' = <<>>
    /\ histories' = <<>>
    /\ UNCHANGED <<pc, session, held, warmups, fin, fout>>

\* GetCurrentRound called by the holder of the client
GetCurrentRound_Op ==
    /\ pc = "idle"
    /\ held
    /\ op' = "GetCurrentRound"
    /\ \E resp \in MainResponses :
          /\ reqs' = <<Request("GET", mainURL, <<>>)>>
          /\ resps' = <<resp>>
          /\ result' = GetCurrentRound(resp)
    /\ batch' = <<>>
    /\ readyIP' = ""
    /\ round' = 0
    /\ summaries' = <<>>
    /\ histories' = <<>>
    /\ UNCHANGED <<pc, session, held, warmups, logins, fin, fout>>

-----------------------------------------------------------------------------
(* The purchase transaction *)

\* the tickets a caller puts in a batch; the last one has no known mode
TicketPool ==
    {Lotto645Ticket(ModeAuto, <<>>),
     Lotto645Ticket(ModeSemiAuto, <<3, 7, 12, 20, 33, 41>>),
     Lotto645Ticket("Other", <<>>)}

RECURSIVE SeqsUpTo(_, _)
\* the sequences over S of length at most n
SeqsUpTo(S, n) ==
    IF n = 0 THEN {<<>>}
    ELSE LET shorter == SeqsUpTo(S, n - 1)
         IN  shorter \cup {Append(q, x) : q \in {r \in shorter : Len(r) = n - 1}, x \in S}

\* the batches handed to BuyLotto645: any number of automatic tickets up to
\* MaxBatch, at most one of them replaced by another ticket of the pool
Batches ==
    {b \in SeqsUpTo(TicketPool, MaxBatch) :
        Cardinality({i \in 1..Len(b) : b[i].Mode # ModeAuto}) <= 1}

\* purchase lines as the site writes them
LineA3 == <<"A", "|", "0", "1", "|", "0", "2", "|", "0", "4", "|", "2", "7",
            "|", "3", "9", "|", "4", "4", "3">>
LineB2 == <<"B", "|", "1", "1", "|", "2", "3", "|", "2", "5", "|", "2", "7",
            "|", "2", "8", "|", "4", "5", "2">>

ResultCodes == {"100", "-7", "1000"}
ResultMsgs == {"", "not enough deposit"}
\* a line too short to decode, and a line with slot X, a number above 45, a
\* token that is no number, and a mode digit the site does not document
LineShort == <<"A", "|">>
LineOdd == <<"X", "|", "4", "6", "|", "x", "|", "0", "7", "9">>

ChoiceArrays ==
    {<<>>, <<LineA3>>, <<LineA3, LineB2>>, <<LineShort, LineB2>>, <<LineOdd, LineB2>>}

NoPurchaseBody == [resultCode |-> "", resultMsg |-> "", arrGameChoiceNum |-> <<>>]

PurchaseResponses ==
    {TransportFailure(NoPurchaseBody), Undecodable(NoPurchaseBody)}
    \cup {Response([resultCode |-> c, resultMsg |-> m, arrGameChoiceNum |-> a]) :
              c \in ResultCodes, m \in ResultMsgs, a \in ChoiceArrays}

\* getReadySocket: the outcome of the ready-socket POST.  Decoding a JSON
\* object without ready_ip leaves the field at its zero value "".
getReadySocket(resp) ==
    IF ~resp.ok THEN Return(ErrTransport, "")
    ELSE IF ~resp.decodable
    THEN Return(Wrap("ready_ip response parse failed", NewErr("ParseError", "")), "")
    ELSE Return(NoErr, IF resp.body.has THEN resp.body.ready_ip ELSE "")

\* the form with the round after the one looked up
BuyFormData_NextRound(rnd, ip, tickets, param) ==
    [round      |-> Itoa(rnd + 1),
     direct     |-> ip,
     nBuyAmount |-> Itoa(1000 * Len(tickets)),
     param      |-> param,
     gameCnt    |-> Itoa(Len(tickets))]

\* the form with the price of one ticket as the amount
BuyFormData_OneTicketAmount(rnd, ip, tickets, param) ==
    [round      |-> Itoa(rnd),
     direct     |-> ip,
     nBuyAmount |-> Itoa(1000),
     param      |-> param,
     gameCnt    |-> Itoa(Len(tickets))]

\* step 4 of BuyLotto645: the form of the purchase POST
BuyFormData(rnd, ip, tickets, param) ==
    [round      |-> Itoa(rnd),
     direct     |-> ip,
     nBuyAmount |-> Itoa(1000 * Len(tickets)),
     param      |-> param,
     gameCnt    |-> Itoa(Len(tickets))]

\* success decided on the first three characters of resultCode
PurchaseAccepted_Prefix(resultCode) == resultCode \in {"100", "1000"}

\* step 7 of BuyLotto645
PurchaseAccepted(resultCode) == resultCode = "100"

\* the response read with the round after the one looked up
BuyResponse_NextRound(rnd, resp) ==
    IF ~resp.ok THEN Return(ErrTransport, <<>>)
    ELSE IF ~resp.decodable
    THEN Return(Wrap("response parse failed", NewErr("ParseError", "")), <<>>)
    ELSE IF ~PurchaseAccepted(resp.body.resultCode)
    THEN Return(Wrap("purchase failed", NewErr("PurchaseRejected", resp.body.resultMsg)), <<>>)
    ELSE Return(NoErr, parsePurchasedNumbers(rnd + 1, resp.body.arrGameChoiceNum))

\* steps 5 to 8 of BuyLotto645: the outcome of the purchase POST
BuyResponse(rnd, resp) ==
    IF ~resp.ok THEN Return(ErrTransport, <<>>)
    ELSE IF ~resp.decodable
    THEN Return(Wrap("response parse failed", NewErr("ParseError", "")), <<>>)
    ELSE IF ~PurchaseAccepted(resp.body.resultCode)
    THEN Return(Wrap("purchase failed", NewErr("PurchaseRejected", resp.body.resultMsg)), <<>>)
    ELSE Return(NoErr, parsePurchasedNumbers(rnd, resp.body.arrGameChoiceNum))

\* BuyLotto645 is called with a batch of tickets
BuyLotto645_Call ==
    /\ pc = "idle"
    /\ held
    /\ \E tickets \in Batches : batch' = tickets
    /\ pc' = "buy_ready"
    /\ op' = "BuyLotto645"
    /\ FreshLocals
    /\ UNCHANGED <<session, held, warmups, logins, fin, fout>>

\* BuyLotto645, step 1: c.getReadySocket()
BuyLotto645_getReadySocket ==
    /\ pc = "buy_ready"
    /\ \E resp \in ReadyResponses :
          /\ reqs' = Append(reqs, Request("POST", readySocketURL, <<>>))
          /\ resps' = Append(resps, resp)
          /\ IF getReadySocket(resp).err # NoErr
             THEN /\ result' = Return(Wrap("ready_ip failed", getReadySocket(resp).err), <<>>)
                  /\ pc' = "idle"
                  /\ readyIP' = readyIP
             ELSE /\ result' = result
                  /\ pc' = "buy_round"
                  /\ readyIP' = getReadySocket(resp).val
    /\ UNCHANGED <<op, session, held, warmups, logins, batch, round, summaries,
                   histories, fin, fout>>

\* BuyLotto645, step 2: c.GetCurrentRound()
BuyLotto645_GetCurrentRound ==
    /\ pc = "buy_round"
    /\ \E resp \in MainResponses :
          /\ reqs' = Append(reqs, Request("GET", mainURL, <<>>))
          /\ resps' = Append(resps, resp)
          /\ IF GetCurrentRound(resp).err # NoErr
             THEN /\ result' = Return(Wrap("round lookup failed", GetCurrentRound(resp).err), <<>>)
                  /\ pc' = "idle"
                  /\ round' = round
             ELSE /\ result' = result
                  /\ pc' = "buy_param"
                  /\ round' = GetCurrentRound(resp).val
    /\ UNCHANGED <<op, session, held, warmups, logins, batch, readyIP, summaries,
                   histories, fin, fout>>

\* the purchase step sending the POST a second time after a transport failure
BuyLotto645_purchase_Retry ==
    /\ pc = "buy_param"
    /\ pc' = "idle"
    /\ IF makeBuyParam(batch).err # NoErr
       THEN /\ result' = Return(Wrap("purchase parameter failed", makeBuyParam(batch).err), <<>>)
            /\ UNCHANGED <<reqs, resps>>
       ELSE \E first \in PurchaseResponses, second \in PurchaseResponses :
               LET req == Request("POST", buyLotto645URL,
                              BuyFormData(round, readyIP, batch, makeBuyParam(batch).param))
               IN  IF first.ok
                   THEN /\ reqs' = Append(reqs, req)
                        /\ resps' = Append(resps, first)
                        /\ result' = BuyResponse(round, first)
                   ELSE /\ reqs' = reqs \o <<req, req>>
                        /\ resps' = resps \o <<first, second>>
                        /\ result' = BuyResponse(round, second)
    /\ UNCHANGED <<op, session, held, warmups, logins, batch, readyIP, round,
                   summaries, histories, fin, fout>>

\* BuyLotto645, steps 3 to 8: c.makeBuyParam(tickets), the purchase POST and
\* the reading of its response
BuyLotto645_purchase ==
    /\ pc = "buy_param"
    /\ pc' = "idle"
    /\ IF makeBuyParam(batch).err # NoErr
       THEN /\ result' = Return(Wrap("purchase parameter failed", makeBuyParam(batch).err), <<>>)
            /\ UNCHANGED <<reqs, resps>>
       ELSE \E resp \in PurchaseResponses :
               /\ reqs' = Append(reqs, Request("POST", buyLotto645URL,
                              BuyFormData(round, readyIP, batch, makeBuyParam(batch).param)))
               /\ resps' = Append(resps, resp)
               /\ result' = BuyResponse(round, resp)
    /\ UNCHANGED <<op, session, held, warmups, logins, batch, readyIP, round,
                   summaries, histories, fin, fout>>

-----------------------------------------------------------------------------
(* Winning numbers *)

\* the draws the results page can show
WinningPool ==
    {[Round |-> r, Numbers |-> <<1, 2, 4, 27, 39, 44>>, BonusNumber |-> 45] :
         r \in Rounds}

NoWinning == [Round |-> 0, Numbers |-> <<>>, BonusNumber |-> 0]

WinningResponses ==
    {TransportFailure(NoWinning), Undecodable(NoWinning)} \cup {Response(w) : w \in WinningPool}

\* parser.ParseWinningNumbers
ParseWinningNumbers(resp) ==
    IF ~resp.decodable THEN Return(NewErr("ParseError", ""), <<>>)
    ELSE Return(NoErr, resp.body)

\* GetWinningNumbers: the outcome of the results-page GET
GetWinningNumbers(resp) ==
    IF ~resp.ok THEN Return(ErrTransport, <<>>) ELSE ParseWinningNumbers(resp)

\* GetWinningNumbers called by the holder of the client
GetWinningNumbers_Op ==
    /\ pc = "idle"
    /\ held
    /\ op' = "GetWinningNumbers"
    /\ \E resp \in WinningResponses :
          /\ reqs' = <<Request("GET", winningURL, <<>>)>>
          /\ resps' = <<resp>>
          /\ result' = GetWinningNumbers(resp)
    /\ batch' = <<>>
    /\ readyIP' = ""
    /\ round' = 0
    /\ summaries' = <<>>
    /\ histories' = <<>>
    /\ UNCHANGED <<pc, session, held, warmups, logins, fin, fout>>

-----------------------------------------------------------------------------
(* Purchase history *)

\* the order summaries the purchase-list page can show
SummaryPool ==
    {[OrderNo |-> "order1", Barcode |-> "barcode1", IssueNo |-> "1"],
     [OrderNo |-> "order2", Barcode |-> "barcode2", IssueNo |-> "1"]}

ListResponses ==
    {TransportFailure(<<>>), Undecodable(<<>>)}
    \cup {Response(l) : l \in SeqsUpTo(SummaryPool, MaxSummaries)}

\* the ticket rows a detail page can show
DetailRows ==
    {<<>>,
     <<[Slot |-> <<"A">>, Numbers |-> <<1, 2, 4, 27, 39, 44>>, Mode |-> ModeTextAuto]>>}

\* the detail page: unreadable, or a round (0 when it shows none) and rows
NoDetail == [round |-> 0, details |-> <<>>]

DetailResponses ==
    {TransportFailure(NoDetail), Undecodable(NoDetail)}
    \cup {Response([round |-> r, details |-> d]) :
              r \in {0} \cup Rounds, d \in DetailRows}

\* parser.ParsePurchaseList
ParsePurchaseList(resp) ==
    IF ~resp.decodable THEN Return(NewErr("ParseError", ""), <<>>)
    ELSE Return(NoErr, resp.body)

\* parser.ParsePurchaseDetail
ParsePurchaseDetail(resp) ==
    IF ~resp.decodable
    THEN [err |-> NewErr("ParseError", ""), round |-> 0, details |-> <<>>]
    ELSE [err |-> NoErr, round |-> resp.body.round, details |-> resp.body.details]

\* fetchPurchaseSummaries: the outcome of the purchase-list POST
fetchPurchaseSummaries(resp) ==
    IF ~resp.ok THEN Return(ErrTransport, <<>>) ELSE ParsePurchaseList(resp)

\* fetchPurchaseTickets leaving the Round of the tickets unset
fetchPurchaseTickets_NoTicketRound(resp) ==
    IF ~resp.ok THEN [err |-> ErrTransport, round |-> 0, tickets |-> <<>>]
    ELSE LET d == ParsePurchaseDetail(resp)
         IN  IF d.err # NoErr THEN [err |-> d.err, round |-> 0, tickets |-> <<>>]
             ELSE [err |-> NoErr, round |-> d.round,
                   tickets |-> [i \in 1..Len(d.details) |->
                                   [Round   |-> 0,
                                    Slot    |-> d.details[i].Slot,
                                    Numbers |-> d.details[i].Numbers,
                                    Mode    |-> d.details[i].Mode]]]

\* fetchPurchaseTickets: the outcome of the detail GET of one summary
fetchPurchaseTickets(resp) ==
    IF ~resp.ok THEN [err |-> ErrTransport, round |-> 0, tickets |-> <<>>]
    ELSE LET d == ParsePurchaseDetail(resp)
         IN  IF d.err # NoErr THEN [err |-> d.err, round |-> 0, tickets |-> <<>>]
             ELSE [err |-> NoErr, round |-> d.round,
                   tickets |-> [i \in 1..Len(d.details) |->
                                   [Round   |-> d.round,
                                    Slot    |-> d.details[i].Slot,
                                    Numbers |-> d.details[i].Numbers,
                                    Mode    |-> d.details[i].Mode]]]

PurchaseHistory(rnd, orderNo, tickets) ==
    [Round |-> rnd, OrderNo |-> orderNo, Tickets |-> tickets]

\* the form of the purchase-list POST (the dates of the window left out)
ListForm == [nowPage |-> "1", lottoId |-> "", winGrade |-> "2", sortOrder |-> "DESC"]

\* the query with the barcode in the place of the order number
DetailQuery_BarcodeAsOrderNo(summary) ==
    [orderNo |-> summary.Barcode, barcode |-> summary.Barcode,
     issueNo |-> summary.IssueNo]

DetailQuery(summary) ==
    [orderNo |-> summary.OrderNo, barcode |-> summary.Barcode,
     issueNo |-> summary.IssueNo]

\* the end of GetRecentPurchases without the check for an empty result
HistoriesResult_AllowEmpty(h) == Return(NoErr, h)

\* the end of GetRecentPurchases, after the loop over the summaries
HistoriesResult(h) ==
    IF Len(h) = 0 THEN Return(NewErr("NoDataFound", ""), <<>>) ELSE Return(NoErr, h)

\* GetRecentPurchases is called
GetRecentPurchases_Call ==
    /\ pc = "idle"
    /\ held
    /\ pc' = "hist_list"
    /\ op' = "GetRecentPurchases"
    /\ batch' = <<>>
    /\ FreshLocals
    /\ UNCHANGED <<session, held, warmups, logins, fin, fout>>

\* GetRecentPurchases: c.fetchPurchaseSummaries(start, end); with no summary
\* the loop is skipped and the function ends
GetRecentPurchases_fetchPurchaseSummaries ==
    /\ pc = "hist_list"
    /\ \E resp \in ListResponses :
          /\ reqs' = Append(reqs, Request("POST", lottoBuyListURL, ListForm))
          /\ resps' = Append(resps, resp)
          /\ LET s == fetchPurchaseSummaries(resp)
             IN  IF s.err # NoErr
                 THEN /\ result' = Return(Wrap("purchase list failed", s.err), <<>>)
                      /\ pc' = "idle"
                      /\ summaries' = summaries
                 ELSE IF Len(s.val) = 0
                 THEN /\ result' = HistoriesResult(histories)
                      /\ pc' = "idle"
                      /\ summaries' = s.val
                 ELSE /\ result' = result
                      /\ pc' = "hist_detail"
                      /\ summaries' = s.val
    /\ UNCHANGED <<op, session, held, warmups, logins, batch, readyIP, round,
                   histories, fin, fout>>

\* the loop iteration without the check of round 0
GetRecentPurchases_fetchPurchaseTickets_NoRoundCheck ==
    /\ pc = "hist_detail"
    /\ \E resp \in DetailResponses :
          LET summary == summaries[Len(histories) + 1]
              t       == fetchPurchaseTickets(resp)
              h       == Append(histories, PurchaseHistory(t.round, summary.OrderNo, t.tickets))
          IN  /\ reqs' = Append(reqs, Request("GET", lottoDetailURL, DetailQuery(summary)))
              /\ resps' = Append(resps, resp)
              /\ IF t.err # NoErr
                 THEN /\ result' = Return(WrapText("purchase detail failed", t.err), <<>>)
                      /\ pc' = "idle"
                      /\ histories' = histories
                 ELSE IF Len(h) = Len(summaries)
                 THEN /\ result' = HistoriesResult(h)
                      /\ pc' = "idle"
                      /\ histories' = h
                 ELSE /\ result' = result
                      /\ pc' = "hist_detail"
                      /\ histories' = h
    /\ UNCHANGED <<op, session, held, warmups, logins, batch, readyIP, round,
                   summaries, fin, fout>>

\* GetRecentPurchases: one iteration of the loop over the summaries; after
\* the last one the function ends
GetRecentPurchases_fetchPurchaseTickets ==
    /\ pc = "hist_detail"
    /\ \E resp \in DetailResponses :
          LET summary == summaries[Len(histories) + 1]
              t       == fetchPurchaseTickets(resp)
              h       == Append(histories, PurchaseHistory(t.round, summary.OrderNo, t.tickets))
          IN  /\ reqs' = Append(reqs, Request("GET", lottoDetailURL, DetailQuery(summary)))
              /\ resps' = Append(resps, resp)
              /\ IF t.err # NoErr
                 THEN /\ result' = Return(WrapText("purchase detail failed", t.err), <<>>)
                      /\ pc' = "idle"
                      /\ histories' = histories
                 ELSE IF t.round = 0
                 THEN /\ result' = Return(NewErr("ParseError", "round lookup failed"), <<>>)
                      /\ pc' = "idle"
                      /\ histories' = histories
                 ELSE IF Len(h) = Len(summaries)
                 THEN /\ result' = HistoriesResult(h)
                      /\ pc' = "idle"
                      /\ histories' = h
                 ELSE /\ result' = result
                      /\ pc' = "hist_detail"
                      /\ histories' = h
    /\ UNCHANGED <<op, session, held, warmups, logins, batch, readyIP, round,
                   summaries, fin, fout>>

-----------------------------------------------------------------------------
(* The client and its caller *)

Init ==
    /\ pc = "start"
    /\ op = "none"
    /\ session = "Uninitialized"
    /\ held = FALSE
    /\ warmups = 0
    /\ logins = 0
    /\ batch = <<>>
    /\ readyIP = ""
    /\ round = 0
    /\ summaries = <<>>
    /\ histories = <<>>
    /\ reqs = <<>>
    /\ resps = <<>>
    /\ result = NoResult
    /\ fin = <<>>
    /\ fout = <<>>

Next ==
    \/ NewClient_Call
    \/ NewClient_initSession
    \/ NewClient_login
    \/ GetCurrentRound_Op
    \/ BuyLotto645_Call
    \/ BuyLotto645_getReadySocket
    \/ BuyLotto645_GetCurrentRound
    \/ BuyLotto645_purchase
    \/ GetWinningNumbers_Op
    \/ GetRecentPurchases_Call
    \/ GetRecentPurchases_fetchPurchaseSummaries
    \/ GetRecentPurchases_fetchPurchaseTickets

Spec == Init /\ [][Next]_vars

-----------------------------------------------------------------------------
(* The parameter encoder on its own *)

\* the tickets handed to the encoder; the last one has no known mode
EncTicketPool ==
    {Lotto645Ticket(ModeAuto, <<>>),
     Lotto645Ticket(ModeManual, <<45, 1, 10, 2, 30, 9>>),
     Lotto645Ticket(ModeSemiAuto, <<3, 7, 12, 20, 33, 41>>),
     Lotto645Ticket("Other", <<>>)}

\* no client has been constructed and no operation has run
Idle ==
    /\ op = "none"
    /\ session = "Uninitialized"
    /\ held = FALSE
    /\ warmups = 0
    /\ logins = 0
    /\ batch = <<>>
    /\ readyIP = ""
    /\ round = 0
    /\ summaries = <<>>
    /\ histories = <<>>
    /\ reqs = <<>>
    /\ resps = <<>>
    /\ result = NoResult

InitEnc ==
    /\ pc = "enc"
    /\ fin \in SeqsUpTo(EncTicketPool, MaxEncBatch)
    /\ fout = <<>>
    /\ Idle

\* c.makeBuyParam(tickets)
Encode ==
    /\ pc = "enc"
    /\ pc' = "enc_done"
    /\ fout' = makeBuyParam(fin)
    /\ UNCHANGED <<op, session, held, warmups, logins, batch, readyIP, round,
                   summaries, histories, reqs, resps, result, fin>>

NextEnc == Encode

SpecEnc == InitEnc /\ [][NextEnc]_vars

-----------------------------------------------------------------------------
(* The purchase-response decoder on its own *)

\* number tokens of a line, the last one not a number
TokenPool == {<<"0", "1">>, <<"4", "4">>, <<"x">>}
LineSlots == {"A", "E"}
LineSuffixes == {"1", "2", "3", "9"}

\* a line as the site writes it: slot, separator, tokens, mode digit
MakeLine(slot, tokens, suffix) ==
    <<slot, "|">> \o Join(tokens, <<"|">>) \o <<suffix>>

\* the decoder's inputs, each with the parts its line was written from
DecInputs ==
    {[slot |-> sl, tokens |-> tk, suffix |-> sf, line |-> MakeLine(sl, tk, sf),
      round |-> r] :
         sl \in LineSlots, tk \in SeqsUpTo(TokenPool, MaxTokens),
         sf \in LineSuffixes, r \in {1200}}
    \cup
    {[slot |-> "A",
      tokens |-> << <<"0", "1">>, <<"0", "2">>, <<"0", "4">>, <<"2", "7">>,
                    <<"3", "9">>, <<"4", "4">> >>,
      suffix |-> "3", line |-> LineA3, round |-> 1200]}

InitDec ==
    /\ pc = "dec"
    /\ fin \in DecInputs
    /\ fout = <<>>
    /\ Idle

\* parsePurchasedNumbers(round, lines) for a response of one line
Decode ==
    /\ pc = "dec"
    /\ pc' = "dec_done"
    /\ fout' = parsePurchasedNumbers(fin.round, <<fin.line>>)
    /\ UNCHANGED <<op, session, held, warmups, logins, batch, readyIP, round,
                   summaries, histories, reqs, resps, result, fin>>

\* parsePurchasedNumbers(round, lines) for a response of two lines, the
\* second one a line of the site
DecodePair ==
    /\ pc = "dec"
    /\ pc' = "dec_pair_done"
    /\ fout' = parsePurchasedNumbers(fin.round, <<fin.line, LineB2>>)
    /\ UNCHANGED <<op, session, held, warmups, logins, batch, readyIP, round,
                   summaries, histories, reqs, resps, result, fin>>

NextDec == Decode \/ DecodePair

SpecDec == InitDec /\ [][NextDec]_vars

-----------------------------------------------------------------------------
(* Properties *)

\* the operation named o has returned to its caller
Returned(o) == op = o /\ pc = "idle"

\* a transport failure or a body the decoder of the endpoint cannot read
Failed(resp) == ~resp.ok \/ ~resp.decodable

\* the positions of reqs that went to the URL u
SentTo(u) == {i \in 1..Len(reqs) : reqs[i].url = u}

\* C1: BuyLotto645 called with more than 5 tickets fails with InvalidInput
\* before issuing any HTTP request: when the error is returned, no
\* ready-socket POST, no main-page GET and no purchase POST has been sent.
C1_OversizedBatchFailsBeforeAnyRequest ==
    (Returned("BuyLotto645") /\ Len(batch) > 5)
        => (result.err.kind = "InvalidInput" /\ reqs = <<>>)

\* C2: no retries and fail-fast.  In every operation the first transport or
\* decode failure is the last response of the operation, the operation has
\* ended with an error there, every fixed endpoint is requested at most once
\* per operation (the purchase POST in particular), and the detail GETs are
\* one per summary, in list order.
C2_FailFastNoRetry ==
    /\ Len(reqs) = Len(resps)
    /\ \A i \in 1..Len(resps) :
          Failed(resps[i]) =>
              /\ i = Len(resps)
              /\ pc \in {"idle", "failed"}
              /\ result.err # NoErr
    /\ \A u \in {defaultSessionURL, loginURL, mainURL, readySocketURL,
                 buyLotto645URL, winningURL, lottoBuyListURL} :
          Cardinality(SentTo(u)) <= 1
    /\ \A i \in SentTo(lottoDetailURL) :
          /\ i >= 2
          /\ i - 1 <= Len(summaries)
          /\ reqs[i].form = DetailQuery(summaries[i - 1])

\* C2 witness: a purchase POST failed in transport and BuyLotto645 returned
\* the error after three requests
C2_Witness ==
    /\ Returned("BuyLotto645")
    /\ Len(resps) = 3
    /\ ~resps[3].ok
    /\ result.err.kind = "Transport"

\* the warm-up response that makes construction fail
WarmupFailed(resp) == ~resp.ok \/ resp.body = systemCheckURL

\* the login response that makes construction fail
LoginFailed(resp) == ~resp.ok \/ resp.body.failureMarker

\* C3: construction issues the warm-up GET first and the login POST second
\* and hands out a client only if both succeeded; a failed warm-up, or a
\* login page with the failure marker (AuthenticationFailed), gives no client
\* and an error; a held client is always Authenticated.
C3_ClientOnlyAfterBothSteps ==
    /\ held => session = "Authenticated"
    /\ op = "NewClient" =>
          /\ Len(reqs) >= 1 => (reqs[1].method = "GET" /\ reqs[1].url = defaultSessionURL)
          /\ Len(reqs) >= 2 =>
                /\ reqs[2].method = "POST"
                /\ reqs[2].url = loginURL
                /\ ~WarmupFailed(resps[1])
          /\ Len(reqs) <= 2
          /\ held => /\ Len(resps) = 2
                     /\ ~WarmupFailed(resps[1])
                     /\ ~LoginFailed(resps[2])
                     /\ result.err = NoErr
          /\ ((Len(resps) >= 1 /\ WarmupFailed(resps[1]))
                \/ (Len(resps) = 2 /\ LoginFailed(resps[2])))
               => (~held /\ pc = "failed" /\ result.err # NoErr)
          /\ (Len(resps) = 2 /\ resps[2].ok /\ resps[2].body.failureMarker)
               => result.err.kind = "AuthenticationFailed"

\* C3 witness: the login page carried the failure marker and the caller got
\* no client
C3_Witness ==
    /\ op = "NewClient"
    /\ pc = "failed"
    /\ Len(resps) = 2
    /\ resps[2].ok
    /\ resps[2].body.failureMarker
    /\ ~held

\* C4: when the warm-up GET ends on the maintenance-page URL, construction
\* fails with SiteUnavailable and no login POST is issued.
C4_MaintenanceStopsConstruction ==
    (op = "NewClient" /\ Len(resps) >= 1 /\ resps[1].ok
        /\ resps[1].body = "https://dhlottery.co.kr/index_check.html")
        => /\ pc = "failed"
           /\ ~held
           /\ result.err.kind = "SiteUnavailable"
           /\ Len(reqs) = 1
           /\ logins = 0

\* C4 witness: construction ended on the maintenance page
C4_Witness ==
    /\ op = "NewClient"
    /\ Len(resps) = 1
    /\ resps[1].ok
    /\ resps[1].body = "https://dhlottery.co.kr/index_check.html"
    /\ pc = "failed"

\* C5: a BuyLotto645 call that reaches the purchase step has issued, in this
\* order, the ready-socket POST, the main-page GET and the purchase POST, and
\* the purchase POST carries as direct the ready_ip of the first response and
\* as round the round number of the second response of the same call.
C5_PurchaseOrderAndBinding ==
    (op = "BuyLotto645" /\ SentTo(buyLotto645URL) # {})
        => /\ Len(reqs) = 3
           /\ reqs[1].method = "POST" /\ reqs[1].url = readySocketURL
           /\ reqs[2].method = "GET" /\ reqs[2].url = mainURL
           /\ reqs[3].method = "POST" /\ reqs[3].url = buyLotto645URL
           /\ resps[1].body.has => reqs[3].form.direct = resps[1].body.ready_ip
           /\ Atoi(reqs[3].form.round).ok
           /\ Atoi(reqs[3].form.round).val = resps[2].body

\* C5 witness: a purchase POST was sent after a ready-socket response that
\* carried a token
C5_Witness ==
    /\ op = "BuyLotto645"
    /\ Len(reqs) = 3
    /\ resps[1].body.has
    /\ reqs[3].form.direct = "10.0.0.9"
    /\ resps[2].body = 1200

\* C6: when the ready-socket response has no ready_ip field, or is not JSON,
\* BuyLotto645 fails with ParseError and issues neither the round lookup nor
\* the purchase POST.
C6_MissingReadyIPIsParseError ==
    (op = "BuyLotto645" /\ Len(resps) >= 1 /\ resps[1].ok
        /\ (~resps[1].decodable \/ ~resps[1].body.has))
        => /\ pc = "idle"
           /\ result.err.kind = "ParseError"
           /\ Len(reqs) = 1

\* C7: BuyLotto645 succeeds exactly when the purchase response's resultCode
\* is "100"; with any other resultCode it returns PurchaseRejected with the
\* site's resultMsg unchanged and no tickets, whatever arrGameChoiceNum holds.
C7_SuccessIffResultCode100 ==
    Returned("BuyLotto645") =>
        /\ result.err = NoErr =>
              /\ Len(resps) = 3
              /\ resps[3].ok /\ resps[3].decodable
              /\ resps[3].body.resultCode = "100"
        /\ (Len(resps) = 3 /\ resps[3].ok /\ resps[3].decodable) =>
              IF resps[3].body.resultCode = "100"
              THEN result.err = NoErr
              ELSE /\ result.err.kind = "PurchaseRejected"
                   /\ result.err.msg = resps[3].body.resultMsg
                   /\ result.val = <<>>

\* C7 witness: a rejected purchase whose response still listed two lines
C7_Witness ==
    /\ Returned("BuyLotto645")
    /\ Len(resps) = 3
    /\ resps[3].ok /\ resps[3].decodable
    /\ resps[3].body.resultCode = "1000"
    /\ resps[3].body.resultMsg = "not enough deposit"
    /\ Len(resps[3].body.arrGameChoiceNum) = 2
    /\ result.err.kind = "PurchaseRejected"

\* C9: in every purchase POST gameCnt is the number of tickets of the batch,
\* nBuyAmount is 1000 times that number, and the param array has that length.
C9_AmountAndCount ==
    \A i \in SentTo(buyLotto645URL) :
        LET f == reqs[i].form
        IN  /\ Atoi(f.gameCnt).ok /\ Atoi(f.nBuyAmount).ok
            /\ Atoi(f.gameCnt).val = Len(batch)
            /\ Atoi(f.nBuyAmount).val = 1000 * Len(batch)
            /\ Atoi(f.nBuyAmount).val = 1000 * Atoi(f.gameCnt).val
            /\ Len(f.param) = Atoi(f.gameCnt).val

\* C9 witness: a purchase POST for a batch of three tickets
C9_Witness ==
    /\ SentTo(buyLotto645URL) # {}
    /\ Len(batch) = 3
    /\ reqs[3].form.nBuyAmount = <<"3", "0", "0", "0">>

\* the letter of the slot at position i
SlotLetter(i) ==
    CASE i = 1 -> "A" [] i = 2 -> "B" [] i = 3 -> "C" [] i = 4 -> "D" [] i = 5 -> "E"

\* the genType the site expects for a mode
GenTypeOf(mode) ==
    CASE mode = "Auto" -> "0" [] mode = "Manual" -> "1" [] mode = "SemiAuto" -> "2"

\* the text s is the numbers of the list, in order, separated by commas
IsCommaList(s, numbers) ==
    /\ Len(Split(s, ",")) = Len(numbers)
    /\ \A i \in 1..Len(numbers) :
          LET a == Atoi(Split(s, ",")[i])
          IN  a.ok /\ a.val = numbers[i] /\ Split(s, ",")[i] # <<>>
                   /\ (Split(s, ",")[i][1] = "0" => numbers[i] = 0)

\* C8: for every batch of 1 to 5 tickets with known modes the encoded array
\* has one object per ticket, in input order; object i has the i-th letter of
\* A..E as alpabet, genType "0"/"1"/"2" for Auto/Manual/SemiAuto, and
\* arrGameChoiceNum null for Auto and the comma-joined numbers in their given
\* order otherwise; SemiAuto [3,7,12,20,33,41] in the 2nd slot encodes as
\* genType "2", arrGameChoiceNum "3,7,12,20,33,41", alpabet "B".
C8_ParamEncoding ==
    (pc = "enc_done" /\ Len(fin) >= 1 /\ Len(fin) <= 5
        /\ \A i \in 1..Len(fin) : fin[i].Mode \in {"Auto", "Manual", "SemiAuto"})
        => /\ fout.err = NoErr
           /\ Len(fout.param) = Len(fin)
           /\ \A i \in 1..Len(fin) :
                 /\ fout.param[i].alpabet = SlotLetter(i)
                 /\ fout.param[i].genType = GenTypeOf(fin[i].Mode)
                 /\ IF fin[i].Mode = "Auto"
                    THEN fout.param[i].arrGameChoiceNum.t = "null"
                    ELSE /\ fout.param[i].arrGameChoiceNum.t = "string"
                         /\ IsCommaList(fout.param[i].arrGameChoiceNum.s, fin[i].Numbers)
           /\ (Len(fin) >= 2 /\ fin[2] = [Mode |-> "SemiAuto", Numbers |-> <<3, 7, 12, 20, 33, 41>>])
                 => fout.param[2] =
                        [genType |-> "2",
                         arrGameChoiceNum |->
                             [t |-> "string",
                              s |-> <<"3", ",", "7", ",", "1", "2", ",", "2", "0", ",",
                                      "3", "3", ",", "4", "1">>],
                         alpabet |-> "B"]

\* C8 witness: a batch of five tickets with a SemiAuto ticket in the 2nd slot
\* and a Manual ticket in the 5th has been encoded
C8_Witness ==
    /\ pc = "enc_done"
    /\ Len(fin) = 5
    /\ fin[2].Mode = "SemiAuto"
    /\ fin[5].Mode = "Manual"
    /\ fin[1].Mode = "Auto"
    /\ fout.err = NoErr
    /\ fout.param[5].alpabet = "E"

\* the number a token of the lines stands for
TokenValue(token) ==
    CASE token = <<"0", "1">> -> 1
      [] token = <<"0", "2">> -> 2
      [] token = <<"0", "4">> -> 4
      [] token = <<"2", "7">> -> 27
      [] token = <<"3", "9">> -> 39
      [] token = <<"4", "4">> -> 44

\* a line of slot A..E, six number tokens and a mode digit 1, 2 or 3
WellFormedInput(in) ==
    /\ in.slot \in {"A", "B", "C", "D", "E"}
    /\ Len(in.tokens) = 6
    /\ \A i \in 1..6 : in.tokens[i] # <<"x">>
    /\ in.suffix \in {"1", "2", "3"}

\* C10: for every well-formed line "<Slot>|n1|n2|n3|n4|n5|n6<d>" the decoder
\* yields one ticket with the first character as slot, the six numbers in
\* order (the mode digit is no part of the last one) and mode Manual for 1,
\* SemiAuto for 2, Auto for 3; "A|01|02|04|27|39|443" yields slot A, numbers
\* [1,2,4,27,39,44], Auto.
C10_DecodeWellFormedLine ==
    (pc = "dec_done" /\ WellFormedInput(fin))
        => /\ Len(fout) = 1
           /\ fout[1].Slot = <<fin.slot>>
           /\ fout[1].Numbers = [i \in 1..6 |-> TokenValue(fin.tokens[i])]
           /\ fout[1].Mode = (CASE fin.suffix = "1" -> "sudong"
                                [] fin.suffix = "2" -> "banjadong"
                                [] fin.suffix = "3" -> "jadong")
           /\ fin.line = <<"A", "|", "0", "1", "|", "0", "2", "|", "0", "4", "|",
                           "2", "7", "|", "3", "9", "|", "4", "4", "3">>
                 => /\ fout[1].Slot = <<"A">>
                    /\ fout[1].Numbers = <<1, 2, 4, 27, 39, 44>>
                    /\ fout[1].Mode = "jadong"

\* C10 witness: the line "A|01|02|04|27|39|443" has been decoded
C10_Witness ==
    /\ pc = "dec_done"
    /\ fin.line = <<"A", "|", "0", "1", "|", "0", "2", "|", "0", "4", "|",
                    "2", "7", "|", "3", "9", "|", "4", "4", "3">>
    /\ Len(fout) = 1
    /\ fout[1].Numbers[6] = 44

\* BuyLotto645 has returned tickets and no error
BuySucceeded == Returned("BuyLotto645") /\ result.err = NoErr

\* the lines of the purchase response of the call that returned
ResponseLines == resps[3].body.arrGameChoiceNum

\* C11: every ticket returned by a successful BuyLotto645 has a slot in
\* {A,B,C,D,E} and exactly 6 numbers, each in 1..45, whatever strings the
\* site put in arrGameChoiceNum.
C11_ReturnedTicketsWellShaped ==
    BuySucceeded =>
        \A i \in 1..Len(result.val) :
            /\ result.val[i].Slot \in {<<"A">>, <<"B">>, <<"C">>, <<"D">>, <<"E">>}
            /\ Len(result.val[i].Numbers) = 6
            /\ \A k \in 1..Len(result.val[i].Numbers) :
                  result.val[i].Numbers[k] >= 1 /\ result.val[i].Numbers[k] <= 45

\* the lines of at least 3 characters, in order
LongLines(lines) == SelectSeq(lines, LAMBDA l : Len(l) >= 3)

\* C12 as stated: a successful BuyLotto645 returns exactly one ticket per
\* string of arrGameChoiceNum: the result is as long as the array, for every
\* array content.
C12_OneTicketPerString ==
    BuySucceeded => Len(result.val) = Len(ResponseLines)

\* C12 as amended: a successful BuyLotto645 returns exactly one ticket per
\* string of at least 3 characters of arrGameChoiceNum, in the same order;
\* shorter strings give no ticket.
C12_OneTicketPerLongString ==
    BuySucceeded =>
        /\ Len(result.val) = Len(LongLines(ResponseLines))
        /\ \A k \in 1..Len(result.val) :
              result.val[k].Slot = <<LongLines(ResponseLines)[k][1]>>

\* C12 witness: a response of a 2-character string and a line gave one ticket
C12_Witness ==
    /\ BuySucceeded
    /\ Len(ResponseLines) = 2
    /\ Len(ResponseLines[1]) = 2
    /\ Len(result.val) = 1
    /\ result.val[1].Slot = <<"B">>

RECURSIVE NumericValues(_)
\* the values of the tokens that are numbers, in order
NumericValues(tokens) ==
    IF tokens = <<>> THEN <<>>
    ELSE (IF Head(tokens) = <<"x">> THEN <<>> ELSE <<TokenValue(Head(tokens))>>)
         \o NumericValues(Tail(tokens))

\* C13: when a line contains a token that does not parse as an integer, only
\* that token is dropped: the line still yields a ticket whose numbers are the
\* parseable tokens in their order, and the other line of the response is
\* decoded as it is on its own.
C13_BadTokenDropsOnlyItself ==
    (pc = "dec_pair_done" /\ \E i \in 1..Len(fin.tokens) : fin.tokens[i] = <<"x">>)
        => /\ Len(fout) = 2
           /\ fout[1].Slot = <<fin.slot>>
           /\ fout[1].Numbers = NumericValues(fin.tokens)
           /\ fout[2] = [Round |-> fin.round, Slot |-> <<"B">>,
                         Numbers |-> <<11, 23, 25, 27, 28, 45>>,
                         Mode |-> "banjadong"]

\* C13 witness: the line "A|01|x|441" was decoded together with a second line
C13_Witness ==
    /\ pc = "dec_pair_done"
    /\ fin.tokens = << <<"0", "1">>, <<"x">>, <<"4", "4">> >>
    /\ fout[1].Numbers = <<1, 44>>
    /\ Len(fout) = 2

\* the last character of a line is none of the mode digits
UnknownModeDigit(line) == line[Len(line)] \notin {"1", "2", "3"}

ListedSummaries == resps[1].body

\* C15: GetRecentPurchases never returns an empty success: with zero order
\* summaries it fails with NoDataFound and fetches no detail page, and every
\* successful return holds at least one PurchaseHistory.
C15_NoEmptySuccess ==
    /\ (Returned("GetRecentPurchases") /\ result.err = NoErr) => Len(result.val) >= 1
    /\ (op = "GetRecentPurchases" /\ Len(resps) >= 1 /\ resps[1].ok
            /\ resps[1].decodable /\ Len(ListedSummaries) = 0)
          => /\ pc = "idle"
             /\ result.err.kind = "NoDataFound"
             /\ Len(reqs) = 1

\* C15 witness: the purchase list was empty and the call returned NoDataFound
C15_Witness ==
    /\ Returned("GetRecentPurchases")
    /\ Len(resps) = 1
    /\ resps[1].ok /\ resps[1].decodable
    /\ Len(ListedSummaries) = 0
    /\ result.err.kind = "NoDataFound"

\* C16: when the detail page of a listed summary yields round 0,
\* GetRecentPurchases fails with ParseError as a whole: it returns no
\* PurchaseHistory, not even those decoded before, and fetches no detail page
\* of a later summary.
C16_RoundZeroIsFatal ==
    op = "GetRecentPurchases" =>
        \A i \in 2..Len(resps) :
            (resps[i].ok /\ resps[i].decodable /\ resps[i].body.round = 0)
                => /\ i = Len(resps)
                   /\ Len(reqs) = i
                   /\ pc = "idle"
                   /\ result.err.kind = "ParseError"
                   /\ result.val = <<>>

\* C16 witness: the first of two summaries was decoded, the second one's
\* detail page held round 0, and nothing was returned
C16_Witness ==
    /\ Returned("GetRecentPurchases")
    /\ Len(ListedSummaries) = 2
    /\ Len(resps) = 3
    /\ resps[3].ok /\ resps[3].decodable
    /\ resps[3].body.round = 0
    /\ Len(histories) = 1
    /\ result.err.kind = "ParseError"
    /\ result.val = <<>>

\* C17: a successful GetRecentPurchases has issued the purchase-list POST and
\* then one detail GET per summary, in list order, and returns one
\* PurchaseHistory per summary in that order: entry i has the orderNo of
\* summary i and the round and tickets of summary i's own detail page.
C17_OneHistoryPerSummary ==
    (Returned("GetRecentPurchases") /\ result.err = NoErr)
        => /\ reqs[1].method = "POST" /\ reqs[1].url = lottoBuyListURL
           /\ Len(reqs) = 1 + Len(ListedSummaries)
           /\ Len(result.val) = Len(ListedSummaries)
           /\ \A i \in 1..Len(ListedSummaries) :
                 /\ reqs[i + 1].method = "GET"
                 /\ reqs[i + 1].url = lottoDetailURL
                 /\ reqs[i + 1].form.orderNo = ListedSummaries[i].OrderNo
                 /\ reqs[i + 1].form.barcode = ListedSummaries[i].Barcode
                 /\ reqs[i + 1].form.issueNo = ListedSummaries[i].IssueNo
                 /\ result.val[i].OrderNo = ListedSummaries[i].OrderNo
                 /\ result.val[i].Round = resps[i + 1].body.round
                 /\ Len(result.val[i].Tickets) = Len(resps[i + 1].body.details)
                 /\ \A k \in 1..Len(result.val[i].Tickets) :
                       /\ result.val[i].Tickets[k].Slot = resps[i + 1].body.details[k].Slot
                       /\ result.val[i].Tickets[k].Numbers = resps[i + 1].body.details[k].Numbers
                       /\ result.val[i].Tickets[k].Mode = resps[i + 1].body.details[k].Mode

\* C17 witness: two different orders of two different rounds were returned,
\* the second with a ticket and the first without
C17_Witness ==
    /\ Returned("GetRecentPurchases")
    /\ result.err = NoErr
    /\ Len(result.val) = 2
    /\ result.val[1].OrderNo = "order2"
    /\ result.val[2].OrderNo = "order1"
    /\ result.val[1].Round = 1200
    /\ result.val[2].Round = 1199
    /\ Len(result.val[1].Tickets) = 0
    /\ Len(result.val[2].Tickets) = 1

\* the kind a caller can recover from a returned error: that of its cause
\* when every wrap kept the cause reachable, none otherwise
CallerKind(err) == IF err.chain THEN err.kind ELSE "untyped"

\* C18: the client never downgrades an error of a decoder or of a nested
\* step: when the last response of an operation was a transport failure or a
\* body its decoder rejects, the error the operation returns still has that
\* kind, only wrapped with context; so for a purchase-detail decode failure
\* inside GetRecentPurchases and for a round-lookup failure inside BuyLotto645.
C18_ErrorKindKept ==
    (pc \in {"idle", "failed"} /\ Len(resps) >= 1 /\ Failed(resps[Len(resps)]))
        => CallerKind(result.err) =
               (IF ~resps[Len(resps)].ok THEN "Transport" ELSE "ParseError")

-----------------------------------------------------------------------------
(* Winning Evaluator (package domain) *)

Rank1 == "Rank1"
Rank2 == "Rank2"
Rank3 == "Rank3"
Rank4 == "Rank4"
Rank5 == "Rank5"
RankNone == "RankNone"

\* the elements of a sequence
Elements(q) == {q[i] : i \in 1..Len(q)}

\* how many of the ticket's numbers are among the winning numbers
MatchCount(numbers, winning) ==
    Cardinality({i \in 1..Len(numbers) : numbers[i] \in Elements(winning.Numbers)})

\* CheckWinning with 5 matches always third, the bonus number never looked at
CheckWinning_NoBonus(numbers, winning) ==
    LET m == MatchCount(numbers, winning)
    IN  CASE m = 6 -> Rank1
          [] m = 5 -> Rank3
          [] m = 4 -> Rank4
          [] m = 3 -> Rank5
          [] OTHER -> RankNone

\* domain.CheckWinning
CheckWinning(numbers, winning) ==
    LET m == MatchCount(numbers, winning)
    IN  CASE m = 6 -> Rank1
          [] m = 5 /\ winning.BonusNumber \in Elements(numbers) -> Rank2
          [] m = 5 -> Rank3
          [] m = 4 -> Rank4
          [] m = 3 -> Rank5
          [] OTHER -> RankNone

\* largest number a ticket handed to the evaluator on its own can hold
MaxNumber == 12

RECURSIVE Ascending(_)
\* the numbers of a set in ascending order
Ascending(S) ==
    IF S = {} THEN <<>>
    ELSE LET least == CHOOSE x \in S : \A y \in S : x <= y
         IN  <<least>> \o Ascending(S \ {least})

\* the tickets of 6 distinct numbers of 1..MaxNumber
RankTickets == {Ascending(S) : S \in {T \in SUBSET (1..MaxNumber) : Cardinality(T) = 6}}

\* draws 1,2,3,4,5,6 with bonus 7 or 8
RankDraws ==
    {[Round |-> 1200, Numbers |-> <<1, 2, 3, 4, 5, 6>>, BonusNumber |-> b] : b \in {7, 8}}

InitRank ==
    /\ pc = "rank"
    /\ fin \in {[numbers |-> n, winning |-> w] : n \in RankTickets, w \in RankDraws}
    /\ fout = <<>>
    /\ Idle

\* rank := domain.CheckWinning(ticket.Numbers, winning)
Evaluate ==
    /\ pc = "rank"
    /\ pc' = "rank_done"
    /\ fout' = CheckWinning(fin.numbers, fin.winning)
    /\ UNCHANGED <<op, session, held, warmups, logins, batch, readyIP, round,
                   summaries, histories, reqs, resps, result, fin>>

NextRank == Evaluate

SpecRank == InitRank /\ [][NextRank]_vars

\* the rank of the grading table for m matches and bonus membership b
RankTable(m, b) ==
    IF m = 6 THEN "Rank1"
    ELSE IF m = 5 THEN (IF b THEN "Rank2" ELSE "Rank3")
    ELSE IF m = 4 THEN "Rank4"
    ELSE IF m = 3 THEN "Rank5"
    ELSE "RankNone"

\* C19: the rank depends only on m, the number of the ticket's numbers among
\* the winning numbers, and on whether the bonus number is among the ticket's
\* numbers: m=6 gives Rank1 and nothing else does, m=5 gives Rank2 with the
\* bonus and Rank3 without, m=4 gives Rank4, m=3 Rank5, anything else
\* RankNone; the bonus number changes nothing when m is not 5.
C19_RankTable ==
    pc = "rank_done" =>
        LET mine == Elements(fin.numbers)
            m    == Cardinality(mine \cap Elements(fin.winning.Numbers))
            b    == fin.winning.BonusNumber \in mine
        IN  /\ fout = RankTable(m, b)
            /\ (fout = "Rank1") <=> (m = 6)
            /\ m # 5 => fout = RankTable(m, ~b)

\* C19 witness: five matches and the bonus number gave Rank2
C19_Witness ==
    /\ pc = "rank_done"
    /\ fin.numbers = <<1, 2, 3, 4, 5, 7>>
    /\ fin.winning.BonusNumber = 7
    /\ fout = "Rank2"

-----------------------------------------------------------------------------
(* Result summary of the check run (cmd/check) *)

PrizeInfo(count, perWinner, total) ==
    [WinnerCount |-> count, AmountPerWinner |-> perWinner, TotalAmount |-> total]

\* domain.NewCheckSummary
NewCheckSummary(winning) ==
    [Round |-> winning.Round, WinningNumbers |-> winning.Numbers,
     BonusNumber |-> winning.BonusNumber, Prizes |-> winning.Prizes,
     Tickets |-> <<>>]

\* domain.NewTicketResult
NewTicketResult(slot, mode, numbers, rank, prize) ==
    [Slot |-> slot, Mode |-> mode, Numbers |-> numbers, Rank |-> rank,
     PrizeAmount |-> prize]

\* summary.AddTicket
AddTicket(summary, ticketResult) ==
    [summary EXCEPT !.Tickets = Append(@, ticketResult)]

\* PrizeOf reading the rank's total payout instead of the amount per winner
PrizeOf_TotalAmount(rank, winning) ==
    IF rank # RankNone /\ rank \in DOMAIN winning.Prizes
    THEN winning.Prizes[rank].TotalAmount
    ELSE 0

\* the prize of one ticket: 0 unless the rank won and the table lists it
PrizeOf(rank, winning) ==
    IF rank # RankNone /\ rank \in DOMAIN winning.Prizes
    THEN winning.Prizes[rank].AmountPerWinner
    ELSE 0

RECURSIVE SummaryLoop(_, _, _, _)
\* the loop over the purchased tickets, from the i-th on
SummaryLoop(summary, purchased, winning, i) ==
    IF i > Len(purchased) THEN summary
    ELSE LET ticket == purchased[i]
             rank   == CheckWinning(ticket.Numbers, winning)
             prize  == PrizeOf(rank, winning)
             ticketResult == NewTicketResult(ticket.Slot, ticket.Mode,
                                             ticket.Numbers, rank, prize)
         IN  SummaryLoop(AddTicket(summary, ticketResult), purchased, winning, i + 1)

BuildSummary(winning, purchased) ==
    SummaryLoop(NewCheckSummary(winning), purchased, winning, 1)

\* most tickets of one checked round
MaxChecked == 2

\* purchased tickets of round 1200: first, second, fifth place and no prize
\* against the draw 1,2,3,4,5,6 with bonus 7
CheckedPool ==
    {[Round |-> 1200, Slot |-> <<"A">>, Mode |-> ModeTextAuto,
      Numbers |-> <<1, 2, 3, 4, 5, 6>>],
     [Round |-> 1200, Slot |-> <<"B">>, Mode |-> ModeTextManual,
      Numbers |-> <<1, 2, 3, 4, 5, 7>>],
     [Round |-> 1200, Slot |-> <<"C">>, Mode |-> ModeTextSemiAuto,
      Numbers |-> <<1, 2, 3, 10, 11, 12>>],
     [Round |-> 1200, Slot |-> <<"D">>, Mode |-> ModeTextUnknown,
      Numbers |-> <<7, 8, 9, 10, 11, 12>>]}

\* the non-empty lists of at most MaxChecked purchased tickets
CheckedLists == {q \in SeqsUpTo(CheckedPool, MaxChecked) : Len(q) >= 1}

\* prize tables: every rank, no first place row, fifth place only, no rows
PrizeTables ==
    LET all == (Rank1 :> PrizeInfo(1, 2000000000, 2000000001)) @@
               (Rank2 :> PrizeInfo(70, 60000000, 420000000)) @@
               (Rank3 :> PrizeInfo(3000, 1500000, 450000000)) @@
               (Rank4 :> PrizeInfo(150000, 50000, 750000000)) @@
               (Rank5 :> PrizeInfo(200000, 5000, 1000000000))
    IN  {all,
         [r \in {Rank2, Rank3, Rank4, Rank5} |-> all[r]],
         [r \in {Rank5} |-> all[r]],
         [r \in {} |-> all[r]]}

\* the draw of round 1200 with each prize table
CheckedDraws ==
    {[Round |-> 1200, Numbers |-> <<1, 2, 3, 4, 5, 6>>, BonusNumber |-> 7,
      Prizes |-> t] : t \in PrizeTables}

InitSummary ==
    /\ pc = "sum"
    /\ fin \in {[winning |-> w, purchased |-> q] : w \in CheckedDraws, q \in CheckedLists}
    /\ fout = <<>>
    /\ Idle

Summarize ==
    /\ pc = "sum"
    /\ pc' = "sum_done"
    /\ fout' = BuildSummary(fin.winning, fin.purchased)
    /\ UNCHANGED <<op, session, held, warmups, logins, batch, readyIP, round,
                   summaries, histories, reqs, resps, result, fin>>

NextSummary == Summarize

SpecSummary == InitSummary /\ [][NextSummary]_vars

\* C20: the summary holds exactly one ticket result per purchased ticket, in
\* the order of the input, each with that ticket's slot, mode and numbers; its
\* prize amount is the amount per winner of its rank's row of the prize table
\* when the rank is not RankNone and the table has that row, and 0 otherwise.
C20_SummaryPerTicket ==
    pc = "sum_done" =>
        /\ Len(fout.Tickets) = Len(fin.purchased)
        /\ \A i \in 1..Len(fin.purchased) :
              LET t == fin.purchased[i]
                  r == fout.Tickets[i]
                  m == Cardinality(Elements(t.Numbers) \cap Elements(fin.winning.Numbers))
                  b == fin.winning.BonusNumber \in Elements(t.Numbers)
              IN  /\ r.Slot = t.Slot
                  /\ r.Mode = t.Mode
                  /\ r.Numbers = t.Numbers
                  /\ r.Rank = RankTable(m, b)
                  /\ r.PrizeAmount =
                        (IF r.Rank = "RankNone" THEN 0
                         ELSE IF r.Rank \notin DOMAIN fin.winning.Prizes THEN 0
                         ELSE fin.winning.Prizes[r.Rank].AmountPerWinner)

\* C20 witness: a second place ticket followed by a losing one, summarized
\* against a table that lists second place
C20_Witness ==
    /\ pc = "sum_done"
    /\ Len(fin.purchased) = 2
    /\ fin.purchased[1].Slot = <<"B">>
    /\ fin.purchased[2].Slot = <<"D">>
    /\ Len(fout.Tickets) = 2
    /\ fout.Tickets[1].Rank = "Rank2"
    /\ fout.Tickets[1].PrizeAmount = 60000000
    /\ fout.Tickets[2].Rank = "RankNone"
    /\ fout.Tickets[2].PrizeAmount = 0

-----------------------------------------------------------------------------
(* Session renewal *)

\* the operations of a constructed client
ClientOps == {"GetCurrentRound", "BuyLotto645", "GetWinningNumbers", "GetRecentPurchases"}

\* a page that came back but is not the page the operation asked for, as the
\* site answers once the session has expired
ExpiredSessionPage(resp) == resp.ok /\ ~resp.decodable

\* C23: the warm-up GET and the login POST are each issued exactly once per
\* client, during construction; no operation of the constructed client issues
\* either of them again, also not after a response of an expired session,
\* which only makes that operation return its parse error.
C23_NoSessionRenewal ==
    /\ held => (warmups = 1 /\ logins = 1)
    /\ op \in ClientOps =>
          /\ SentTo(defaultSessionURL) = {}
          /\ SentTo(loginURL) = {}
    /\ (op \in ClientOps /\ pc = "idle" /\ Len(resps) >= 1
            /\ ExpiredSessionPage(resps[Len(resps)]))
          => (result.err # NoErr /\ result.err.kind = "ParseError"
              /\ Len(reqs) = Len(resps))

\* C23 witness: the main page of an expired session made GetCurrentRound
\* fail, and the client has still warmed up and logged in once
C23_Witness ==
    /\ Returned("GetCurrentRound")
    /\ Len(resps) = 1
    /\ ExpiredSessionPage(resps[1])
    /\ result.err.kind = "ParseError"
    /\ warmups = 1
    /\ logins = 1

-----------------------------------------------------------------------------
(* Rejected batches *)

\* a batch the encoder has to reject: more tickets than slots, or a ticket
\* whose mode is none of the three
RejectedBatch(tickets) ==
    \/ Len(tickets) > 5
    \/ \E i \in 1..Len(tickets) :
          tickets[i].Mode \notin {ModeAuto, ModeManual, ModeSemiAuto}

\* C25: a batch that makeBuyParam rejects (more than 5 tickets, or a ticket
\* whose mode is none of Auto, Manual, SemiAuto) is never purchased:
\* BuyLotto645 returns an error and sends no purchase POST.
C25_RejectedBatchNotPurchased ==
    (op = "BuyLotto645" /\ RejectedBatch(batch)) =>
        /\ makeBuyParam(batch).err # NoErr
        /\ SentTo(buyLotto645URL) = {}
        /\ pc = "idle" => result.err # NoErr

\* C25 witness: a batch of six reached the encoder, after the ready-socket
\* POST and the main-page GET, and BuyLotto645 returned the encoder's error
C25_Witness ==
    /\ Returned("BuyLotto645")
    /\ Len(batch) = 6
    /\ Len(reqs) = 2
    /\ result.err.kind = "InvalidInput"
    /\ SentTo(buyLotto645URL) = {}

-----------------------------------------------------------------------------
(* Rounds of returned tickets *)

\* C26: every ticket returned by one BuyLotto645 call carries the same round:
\* the round that the GetCurrentRound step of that call read from the main
\* page, which is also the round field of the purchase POST of that call.
C26_BoughtTicketsCarryCallRound ==
    BuySucceeded =>
        /\ Len(reqs) = 3
        /\ resps[2].body = round
        /\ reqs[3].url = buyLotto645URL
        /\ reqs[3].form.round = Itoa(round)
        /\ \A i \in 1..Len(result.val) : result.val[i].Round = round

\* C26 witness: two tickets bought in a call that looked up round 1200
C26_Witness ==
    /\ BuySucceeded
    /\ round = 1200
    /\ Len(result.val) = 2
    /\ result.val[1].Round = 1200
    /\ result.val[2].Round = 1200
    /\ reqs[3].form.round = <<"1", "2", "0", "0">>

\* GetRecentPurchases has returned histories and no error
HistorySucceeded == Returned("GetRecentPurchases") /\ result.err = NoErr

\* C27: in every PurchaseHistory returned by GetRecentPurchases, Round is not
\* zero and every ticket has the Round of its history, both read from the
\* detail page of that order.
C27_HistoryRounds ==
    HistorySucceeded =>
        \A k \in 1..Len(result.val) :
            /\ result.val[k].Round # 0
            /\ result.val[k].Round = resps[k + 1].body.round
            /\ \A i \in 1..Len(result.val[k].Tickets) :
                  result.val[k].Tickets[i].Round = result.val[k].Round

\* C27 witness: two orders of different rounds, the second with one ticket
C27_Witness ==
    /\ HistorySucceeded
    /\ Len(result.val) = 2
    /\ result.val[1].Round = 1199
    /\ result.val[2].Round = 1200
    /\ Len(result.val[2].Tickets) = 1
    /\ result.val[2].Tickets[1].Round = 1200

-----------------------------------------------------------------------------
(* The two scheduled runs: the purchase run and the check run *)

\* domain.NewAutoTickets
NewAutoTickets(count) == [i \in 1..count |-> Lotto645Ticket(ModeAuto, <<>>)]

\* log.Fatalf: the run ends with a message, and the error it was given
Fatal(message, err) == [fatal |-> message, err |-> err]
NoExit == Fatal("", NoErr)

NoDraw ==
    [Round |-> 0, Numbers |-> <<>>, BonusNumber |-> 0, Prizes |-> [r \in {} |-> 0]]

NoSummary == NewCheckSummary(NoDraw)

\* SendLotteryBuyMail sending whatever it is given
SendLotteryBuyMail_NoEmptyCheck(tickets, delivered) ==
    IF ~delivered THEN [err |-> NewErr("Mail", "send failed"), mails |-> <<>>]
    ELSE [err |-> NoErr,
          mails |-> <<[kind |-> "buy",
                       round |-> IF Len(tickets) = 0 THEN 0 ELSE tickets[1].Round,
                       count |-> Len(tickets)]>>]

\* EmailSender.SendLotteryBuyMail; delivered is whether s.send succeeded
SendLotteryBuyMail(tickets, delivered) ==
    IF Len(tickets) = 0 THEN [err |-> NewErr("Mail", "no tickets"), mails |-> <<>>]
    ELSE IF ~delivered THEN [err |-> NewErr("Mail", "send failed"), mails |-> <<>>]
    ELSE [err |-> NoErr,
          mails |-> <<[kind |-> "buy", round |-> tickets[1].Round,
                       count |-> Len(tickets)]>>]

\* EmailSender.SendLotteryCheckResultMail; the summary of main is never nil
SendLotteryCheckResultMail(summary, delivered) ==
    IF ~delivered THEN [err |-> NewErr("Mail", "send failed"), mails |-> <<>>]
    ELSE [err |-> NoErr,
          mails |-> <<[kind |-> "result", round |-> summary.Round,
                       count |-> Len(summary.Tickets)]>>]

RECURSIVE PurchasedOfRound_AnyRound(_, _)
\* the tickets of every order of the window, whatever its round
PurchasedOfRound_AnyRound(purchases, winning) ==
    IF purchases = <<>> THEN <<>>
    ELSE Head(purchases).Tickets \o PurchasedOfRound_AnyRound(Tail(purchases), winning)

RECURSIVE PurchasedOfRound(_, _)
\* the loop that collects the tickets of the orders of the winning round
PurchasedOfRound(purchases, winning) ==
    IF purchases = <<>> THEN <<>>
    ELSE (IF Head(purchases).Round = winning.Round
          THEN Head(purchases).Tickets ELSE <<>>)
         \o PurchasedOfRound(Tail(purchases), winning)

\* a run: which program, the statement main is at, and its locals
RunLocals(run, step, winning, purchases, purchased, summary) ==
    [run |-> run, step |-> step, winning |-> winning, purchases |-> purchases,
     purchased |-> purchased, summary |-> summary]

InitRuns ==
    /\ pc = "start"
    /\ Idle
    /\ fin \in {RunLocals(r, "NewClient", NoDraw, <<>>, <<>>, NoSummary) : r \in {"buy", "check"}}
    /\ fout = [mails |-> <<>>, exit |-> NoExit]

\* what the client actions leave alone in a step of main
ClientUnchanged ==
    UNCHANGED <<pc, op, session, held, warmups, logins, batch, readyIP, round,
                summaries, histories, reqs, resps, result>>

\* both runs: lottery.NewClient(username, password) and the steps inside it
Run_NewClient ==
    /\ fin.step = "NewClient"
    /\ \/ pc = "start" /\ NewClient_Call
       \/ NewClient_initSession
       \/ NewClient_login

\* both runs: if err != nil { log.Fatalf } after NewClient
Run_AfterNewClient ==
    /\ fin.step = "NewClient"
    /\ op = "NewClient"
    /\ pc \in {"idle", "failed"}
    /\ IF result.err # NoErr
       THEN /\ fin' = [fin EXCEPT !.step = "exited"]
            /\ fout' = [fout EXCEPT !.exit = Fatal("login failed", result.err)]
       ELSE /\ fin' = [fin EXCEPT !.step = IF fin.run = "buy" THEN "BuyLotto645"
                                           ELSE "GetWinningNumbers"]
            /\ fout' = fout
    /\ ClientUnchanged

\* purchase run: tickets := domain.NewAutoTickets(2), then
\* client.BuyLotto645(tickets) and the steps inside it
Run_BuyLotto645 ==
    /\ fin.step = "BuyLotto645"
    /\ \/ op = "NewClient" /\ BuyLotto645_Call /\ batch' = NewAutoTickets(2)
       \/ BuyLotto645_getReadySocket
       \/ BuyLotto645_GetCurrentRound
       \/ BuyLotto645_purchase

\* purchase run: if err != nil { log.Fatalf } after BuyLotto645
Run_AfterBuyLotto645 ==
    /\ fin.step = "BuyLotto645"
    /\ Returned("BuyLotto645")
    /\ IF result.err # NoErr
       THEN /\ fin' = [fin EXCEPT !.step = "exited"]
            /\ fout' = [fout EXCEPT !.exit = Fatal("purchase failed", result.err)]
       ELSE /\ fin' = [fin EXCEPT !.step = "SendLotteryBuyMail", !.purchased = result.val]
            /\ fout' = fout
    /\ ClientUnchanged

\* purchase run: emailSender.SendLotteryBuyMail(purchased)
Run_SendLotteryBuyMail ==
    /\ fin.step = "SendLotteryBuyMail"
    /\ \E delivered \in BOOLEAN :
          LET sent == SendLotteryBuyMail(fin.purchased, delivered)
          IN  IF sent.err # NoErr
              THEN /\ fin' = [fin EXCEPT !.step = "exited"]
                   /\ fout' = [fout EXCEPT !.exit = Fatal("purchase mail failed", sent.err)]
              ELSE /\ fin' = [fin EXCEPT !.step = "done"]
                   /\ fout' = [fout EXCEPT !.mails = @ \o sent.mails]
    /\ ClientUnchanged

\* check run: client.GetWinningNumbers()
Run_GetWinningNumbers ==
    /\ fin.step = "GetWinningNumbers"
    /\ op = "NewClient"
    /\ GetWinningNumbers_Op

\* check run: if err != nil { log.Fatalf } after GetWinningNumbers; the draw
\* comes with the prize rows of the results page
Run_AfterGetWinningNumbers ==
    /\ fin.step = "GetWinningNumbers"
    /\ Returned("GetWinningNumbers")
    /\ IF result.err # NoErr
       THEN /\ fin' = [fin EXCEPT !.step = "exited"]
            /\ fout' = [fout EXCEPT !.exit = Fatal("winning lookup failed", result.err)]
       ELSE /\ \E t \in PrizeTables :
                 fin' = [fin EXCEPT !.step = "GetRecentPurchases",
                                    !.winning = [Round |-> result.val.Round,
                                                 Numbers |-> result.val.Numbers,
                                                 BonusNumber |-> result.val.BonusNumber,
                                                 Prizes |-> t]]
            /\ fout' = fout
    /\ ClientUnchanged

\* check run: client.GetRecentPurchases(purchaseHistoryDays) and the steps
\* inside it
Run_GetRecentPurchases ==
    /\ fin.step = "GetRecentPurchases"
    /\ \/ op = "GetWinningNumbers" /\ GetRecentPurchases_Call
       \/ GetRecentPurchases_fetchPurchaseSummaries
       \/ GetRecentPurchases_fetchPurchaseTickets

\* check run: from the check of the error of GetRecentPurchases to the end
\* of the loop that builds the summary
Run_AfterGetRecentPurchases ==
    /\ fin.step = "GetRecentPurchases"
    /\ Returned("GetRecentPurchases")
    /\ IF result.err # NoErr
       THEN /\ fin' = [fin EXCEPT !.step = "exited"]
            /\ fout' = [fout EXCEPT !.exit = Fatal("purchase history failed", result.err)]
       ELSE LET purchased == PurchasedOfRound(result.val, fin.winning)
            IN  IF Len(purchased) = 0
                THEN /\ fin' = [fin EXCEPT !.step = "exited", !.purchases = result.val]
                     /\ fout' = [fout EXCEPT !.exit =
                                    Fatal("no purchase of the round found", NoErr)]
                ELSE /\ fin' = [fin EXCEPT !.step = "SendLotteryCheckResultMail",
                                           !.purchases = result.val,
                                           !.purchased = purchased,
                                           !.summary = BuildSummary(fin.winning, purchased)]
                     /\ fout' = fout
    /\ ClientUnchanged

\* check run: emailSender.SendLotteryCheckResultMail(summary)
Run_SendLotteryCheckResultMail ==
    /\ fin.step = "SendLotteryCheckResultMail"
    /\ \E delivered \in BOOLEAN :
          LET sent == SendLotteryCheckResultMail(fin.summary, delivered)
          IN  IF sent.err # NoErr
              THEN /\ fin' = [fin EXCEPT !.step = "exited"]
                   /\ fout' = [fout EXCEPT !.exit = Fatal("result mail failed", sent.err)]
              ELSE /\ fin' = [fin EXCEPT !.step = "done"]
                   /\ fout' = [fout EXCEPT !.mails = @ \o sent.mails]
    /\ ClientUnchanged

NextRuns ==
    \/ Run_NewClient
    \/ Run_AfterNewClient
    \/ Run_BuyLotto645
    \/ Run_AfterBuyLotto645
    \/ Run_SendLotteryBuyMail
    \/ Run_GetWinningNumbers
    \/ Run_AfterGetWinningNumbers
    \/ Run_GetRecentPurchases
    \/ Run_AfterGetRecentPurchases
    \/ Run_SendLotteryCheckResultMail

SpecRuns == InitRuns /\ [][NextRuns]_vars

\* the purchase POST of the call in progress
PurchasePosts == {i \in 1..Len(reqs) : reqs[i].url = buyLotto645URL}

\* C22: each purchase run buys exactly one ticket: the batch handed to
\* BuyLotto645 has one ticket, and the purchase POST has gameCnt 1 and
\* nBuyAmount 1000.
C22_OneTicketPerRun ==
    (fin.run = "buy" /\ op = "BuyLotto645") =>
        /\ Len(batch) = 1
        /\ \A i \in PurchasePosts :
              /\ reqs[i].form.gameCnt = <<"1">>
              /\ reqs[i].form.nBuyAmount = <<"1", "0", "0", "0">>

\* the orders of the window that GetRecentPurchases returned which are of
\* the round of the draw
OrdersOfRound ==
    {k \in 1..Len(fin.purchases) : fin.purchases[k].Round = fin.winning.Round}

\* the tickets of those orders, as (order, position) pairs
TicketsOfRound ==
    UNION {{<<k, j>> : j \in 1..Len(fin.purchases[k].Tickets)} : k \in OrdersOfRound}

\* main of the check run is past its call of GetRecentPurchases
PastGetRecentPurchases ==
    /\ fin.run = "check"
    /\ Returned("GetRecentPurchases")
    /\ fin.step # "GetRecentPurchases"

\* C21: every ticket evaluated into the summary comes from an order whose
\* round is the round of the fetched draw, tickets of other rounds of the
\* window are not evaluated; when the window has no order of that round the
\* run ends with a no-data condition that is not a transport failure, with
\* nothing evaluated and no result mail sent.
C21_RoundMatching ==
    /\ (fin.run = "check" /\ fin.summary # NoSummary) =>
          /\ fin.summary.Round = fin.winning.Round
          /\ Len(fin.summary.Tickets) = Cardinality(TicketsOfRound)
          /\ Len(fin.summary.Tickets) = Len(fin.purchased)
          /\ \A i \in 1..Len(fin.purchased) :
                /\ fin.purchased[i].Round = fin.winning.Round
                /\ \E p \in TicketsOfRound :
                      fin.purchases[p[1]].Tickets[p[2]] = fin.purchased[i]
                /\ fin.summary.Tickets[i].Slot = fin.purchased[i].Slot
                /\ fin.summary.Tickets[i].Numbers = fin.purchased[i].Numbers
    /\ (PastGetRecentPurchases /\ result.err = NoErr
            /\ \A k \in 1..Len(result.val) : result.val[k].Round # fin.winning.Round)
          => /\ fin.step = "exited"
             /\ fout.exit = Fatal("no purchase of the round found", NoErr)
             /\ fin.summary = NoSummary
             /\ fout.mails = <<>>
    /\ (PastGetRecentPurchases /\ result.err.kind = "NoDataFound")
          => /\ fin.step = "exited"
             /\ fout.exit.fatal = "purchase history failed"
             /\ CallerKind(fout.exit.err) = "NoDataFound"
             /\ fin.summary = NoSummary
             /\ fout.mails = <<>>

\* C21 witness: the window holds an order of round 1199 and one of round
\* 1200, one ticket each, and only the ticket of round 1200, the round of
\* the draw, is in the summary
C21_Witness ==
    /\ fin.run = "check"
    /\ fin.step = "done"
    /\ fin.winning.Round = 1200
    /\ Len(fin.purchases) = 2
    /\ fin.purchases[1].Round = 1199
    /\ Len(fin.purchases[1].Tickets) = 1
    /\ fin.purchases[2].Round = 1200
    /\ Len(fin.purchases[2].Tickets) = 1
    /\ Len(fin.summary.Tickets) = 1

\* C28: the purchase mail is sent only after BuyLotto645 returned at least
\* one ticket and no error; the result mail only after login,
\* GetWinningNumbers and GetRecentPurchases succeeded and at least one ticket
\* of the round of the draw was evaluated; after a failure of any step the
\* run ends and no mail is sent.
C28_MailOnlyAfterSuccess ==
    /\ Len(fout.mails) <= 1
    /\ \A i \in 1..Len(fout.mails) :
          LET mail == fout.mails[i]
          IN  /\ mail.kind = "buy" =>
                    /\ fin.run = "buy"
                    /\ held
                    /\ Returned("BuyLotto645")
                    /\ result.err = NoErr
                    /\ Len(result.val) >= 1
                    /\ mail.count = Len(result.val)
              /\ mail.kind = "result" =>
                    /\ fin.run = "check"
                    /\ held
                    /\ fin.winning.Round \in Rounds
                    /\ Returned("GetRecentPurchases")
                    /\ result.err = NoErr
                    /\ Len(fin.summary.Tickets) >= 1
                    /\ mail.count = Len(fin.summary.Tickets)
                    /\ \A j \in 1..Len(fin.purchased) :
                          fin.purchased[j].Round = fin.winning.Round
    /\ result.err # NoErr =>
          /\ fout.mails = <<>>
          /\ fin.step \in {"NewClient", "BuyLotto645", "GetWinningNumbers",
                           "GetRecentPurchases", "exited"}
    /\ fout.exit # NoExit => (fin.step = "exited" /\ fout.mails = <<>>)
    /\ fin.step = "exited" => fout.exit # NoExit

\* C28 witness: the purchase run sent its mail for the two tickets that
\* BuyLotto645 returned
C28_Witness ==
    /\ fin.run = "buy"
    /\ fin.step = "done"
    /\ Returned("BuyLotto645")
    /\ Len(result.val) = 2
    /\ fout.mails = <<[kind |-> "buy", round |-> 1200, count |-> 2]>>

-----------------------------------------------------------------------------
(* Two clients in one process *)

\* the two Client values
ClientIds == {1, 2}

\* the arguments of NewClient
Credentials ==
    {[username |-> "alice", password |-> "pa"], [username |-> "bob", password |-> "pb"]}

\* the cookies a response can set
ServerCookies ==
    {{}} \cup {{[name |-> n, value |-> v]} : n \in {"JSESSIONID", "WMONID"},
                                              v \in {"s1", "s2"}}

\* no Client value yet
NoClient ==
    [made |-> FALSE, username |-> "", password |-> "", jar |-> {}, inflight |-> FALSE]

\* Jar.SetCookies: a cookie replaces the one of the same name
SetCookies(jar, cookies) ==
    {c \in jar : \A n \in cookies : n.name # c.name} \cup cookies

\* the last thing done through a client
Done(c, kind, url, cookies, userId, password) ==
    [client |-> c, kind |-> kind, url |-> url, cookies |-> cookies,
     userId |-> userId, password |-> password]

InitTwo ==
    /\ pc = "two"
    /\ Idle
    /\ fin = [c \in ClientIds |-> NoClient]
    /\ fout = Done(0, "none", "", {}, "", "")

\* NewClient: a jar of its own, and the credentials it was given
Two_NewClient ==
    /\ \E c \in ClientIds, cred \in Credentials :
          /\ ~fin[c].made
          /\ fin' = [fin EXCEPT ![c] = [made |-> TRUE, username |-> cred.username,
                                        password |-> cred.password, jar |-> {},
                                        inflight |-> FALSE]]
          /\ fout' = Done(c, "new", "", {}, "", "")
    /\ ClientUnchanged

\* c.httpClient.Do(req), the request: the cookies of the client's jar go
\* out, and its credentials when it is the login POST
Two_Send ==
    /\ \E c \in ClientIds, url \in {loginURL, mainURL} :
          /\ fin[c].made
          /\ ~fin[c].inflight
          /\ fin' = [fin EXCEPT ![c].inflight = TRUE]
          /\ fout' = Done(c, "send", url, fin[c].jar,
                          IF url = loginURL THEN fin[c].username ELSE "",
                          IF url = loginURL THEN fin[c].password ELSE "")
    /\ ClientUnchanged

\* the response stored in one jar for the whole process
Two_Receive_SharedJar ==
    /\ \E c \in ClientIds, cookies \in ServerCookies :
          /\ fin[c].inflight
          /\ fin' = [d \in ClientIds |->
                        IF d = c
                        THEN [fin[d] EXCEPT !.inflight = FALSE,
                                            !.jar = SetCookies(@, cookies)]
                        ELSE [fin[d] EXCEPT !.jar = SetCookies(@, cookies)]]
          /\ fout' = Done(c, "receive", "", cookies, "", "")
    /\ ClientUnchanged

\* c.httpClient.Do(req), the response: its cookies go into the client's jar
Two_Receive ==
    /\ \E c \in ClientIds, cookies \in ServerCookies :
          /\ fin[c].inflight
          /\ fin' = [fin EXCEPT ![c].inflight = FALSE,
                                ![c].jar = SetCookies(@, cookies)]
          /\ fout' = Done(c, "receive", "", cookies, "", "")
    /\ ClientUnchanged

NextTwo == Two_NewClient \/ Two_Send \/ Two_Receive

SpecTwo == InitTwo /\ [][NextTwo]_vars

\* C24: two clients share nothing: in every step of every interleaving, what
\* is done through one client sends the cookies and credentials of that
\* client only and rewrites only its cookie store; the cookie store and the
\* credentials of the other client stay as they were.
C24_ClientsShareNothing ==
    [][\A c \in ClientIds :
          /\ fout'.client # c =>
                /\ fin'[c].jar = fin[c].jar
                /\ fin'[c].username = fin[c].username
                /\ fin'[c].password = fin[c].password
          /\ (fout'.client = c /\ fout'.kind = "send") =>
                /\ fout'.cookies = fin[c].jar
                /\ fout'.url = loginURL =>
                      (fout'.userId = fin[c].username /\ fout'.password = fin[c].password)
          /\ (fout'.client = c /\ fout'.kind = "receive") =>
                fin'[c].jar = SetCookies(fin[c].jar, fout'.cookies)]_vars

\* C24 witness: both clients have requests in flight or answered, client 1
\* holds a session cookie that client 2 does not, and the last response went
\* to client 2
C24_Witness ==
    /\ fin[1].made
    /\ fin[2].made
    /\ fin[1].username # fin[2].username
    /\ [name |-> "JSESSIONID", value |-> "s1"] \in fin[1].jar
    /\ [name |-> "JSESSIONID", value |-> "s2"] \in fin[2].jar
    /\ fin[1].inflight
    /\ fout.client = 2
    /\ fout.kind = "receive"

====
